---- MODULE Spec2Model ----
(***************************************************************************)
(* Model of the chunk extraction and batched ingestion pipeline of the     *)
(* semantic code navigator:                                                *)
(*   - MindsDBClient.insert_data (src/src/mindsdb_client.py), the batch    *)
(*     writer with its retry / reconnect loop;                             *)
(*   - CodeIngestionEngine.extract_functions_fallback and process_file     *)
(*     (src/src/code_ingestion.py), the chunk extractor and enricher;      *)
(*   - discover_code_files, ingest_repository and ingest_git_repository,   *)
(*     the walk over the working copy and the run as a whole;              *)
(*   - the configuration dataclasses (src/src/config.py);                  *)
(*   - the kb:ingest command (src/src/cli.py).                             *)
(***************************************************************************)
EXTENDS Integers, Sequences, FiniteSets, TLC

VARIABLES
    \* ---- MindsDBClient.insert_data ----
    data,                \* the records handed to insert_data
    req_batch_size,      \* the caller's batch_size argument (0 models None)
    batch_size,          \* the effective batch size (line 118)
    total_batches,       \* line 123
    successful_batches,  \* line 122 / 158
    i,                   \* offset of the current batch (line 125)
    attempt,             \* index of the current attempt (line 130)
    server,              \* self.server: "handle" or "none"
    pc,                  \* position inside insert_data
    result,              \* the value insert_data returned ("none" before it returns)
    outcome,             \* which of the final console reports was printed
    events,              \* everything insert_data did to the store and the clock
    inserted_records,    \* the record count of the partial report (line 185)
    \* ---- CodeIngestionEngine.process_file ----
    file,                \* the file on disk: path, content, git state
    repo_url,            \* the repo_url argument of the ingestion
    xpc,                 \* position of the extraction run
    functions,           \* what a direct call of extract_functions_fallback returned
    runs,                \* the chunk lists returned by process_file, oldest first
    \* ---- CodeIngestionEngine.ingest_repository, MindsDBClient.ingest_git_repository ----
    tree,                \* the files of the repository, in directory listing order
    extensions,          \* the extensions argument
    exclude_dirs,        \* the exclude_dirs argument
    cleanup,             \* the cleanup argument
    git_flag,            \* the extract_git_info argument
    temp_dir,            \* ingest_repository's temp_dir ("none" for None)
    workdirs,            \* the temporary working copies that exist on disk
    removals,            \* the shutil.rmtree calls made, with their outcome
    code_files,          \* what discover_code_files returned
    fi,                  \* position of the loop over code_files (line 325)
    all_chunks,          \* ingest_repository's all_chunks
    errors,              \* the files process_file printed an error for
    ipc,                 \* position inside the ingestion
    iexit,               \* how ingest_repository exited: "return" or "raise"
    ingested,            \* the value ingest_git_repository returned
    \* ---- config.py ----
    env,                 \* os.environ: the variables that are set, with their values
    dotenv,              \* the variables of the .env file load_dotenv reads
    class_defaults,      \* the default values the dataclasses were defined with
    cfg,                 \* the fields of the configuration objects constructed last
    cpc,                 \* position: module not imported, imported, objects constructed
    \* ---- cli.py, the kb:ingest command ----
    dry_run,             \* the --dry-run flag
    kpc,                 \* position inside ingest_codebase
    exit_code,           \* the exit code of the command (Running until it ends)
    output               \* the last line the command printed about its result

wvars == <<data, req_batch_size, batch_size, total_batches, successful_batches,
           i, attempt, server, pc, result, outcome, events, inserted_records>>
xvars == <<file, repo_url, xpc, functions, runs>>
ivars == <<tree, extensions, exclude_dirs, cleanup, git_flag, temp_dir,
           workdirs, removals, code_files, fi, all_chunks, errors, ipc, iexit, ingested>>
cvars == <<env, dotenv, class_defaults, cfg, cpc>>
kvars == <<dry_run, kpc, exit_code, output>>
vars == <<data, req_batch_size, batch_size, total_batches, successful_batches,
          i, attempt, server, pc, result, outcome, events, inserted_records,
          file, repo_url, xpc, functions, runs,
          tree, extensions, exclude_dirs, cleanup, git_flag, temp_dir,
          workdirs, removals, code_files, fi, all_chunks, errors, ipc, iexit, ingested,
          env, dotenv, class_defaults, cfg, cpc,
          dry_run, kpc, exit_code, output>>

Min(a, b) == IF a <= b THEN a ELSE b

\* inserted_records before line 185 has assigned it, and the exit code of a
\* command that has not ended
NotReported == 0 - 1
Running == 0 - 1

(***************************************************************************)
(* Bounds of the model.                                                    *)
(***************************************************************************)
MaxChunks == 60
MaxBatches == 3
MaxSmallBatch == 2
MaxOver == 1
MaxLines == 3

(***************************************************************************)
(* Program constants.                                                      *)
(***************************************************************************)
BatchCeiling == 25
ConfigBatchSize == 500
max_retries == 3
chunk_size == 50

(***************************************************************************)
(* insert_data: pure helpers.                                              *)
(***************************************************************************)
\* batch_size or config.stress_test.batch_size, then min(., 25)   (line 118)
EffectiveBatchSize(b) == Min(IF b = 0 THEN ConfigBatchSize ELSE b, BatchCeiling)

\* a variant that rounds the wrong way when batch_size divides len(data)
TotalBatchesPlusOne(n, bs) == (n \div bs) + 1

\* (len(data) + batch_size - 1) // batch_size                     (line 123)
TotalBatches(n, bs) == (n + bs - 1) \div bs

\* a variant whose slices overlap by one record
SliceInclusive(d, lo, hi) == SubSeq(d, lo + 1, Min(hi + 1, Len(d)))

\* data[lo:hi], a Python slice with 0 <= lo                       (line 126)
Slice(d, lo, hi) == SubSeq(d, lo + 1, Min(hi, Len(d)))

\* batch_num = i // batch_size + 1                                (line 127)
BatchNum(off, bs) == (off \div bs) + 1

\* a variant that retries once more than the ceiling
MayRetryOnceMore(a) == a < max_retries

\* attempt < max_retries - 1                                      (line 162)
MayRetry(a) == a < max_retries - 1

\* a variant in which an exhausted batch ends the whole run
AfterFailureFatal(a) == IF MayRetry(a) THEN "reconnect" ELSE "finish"

\* lines 162-176: retry after a reconnect, or give the batch up and go on
AfterFailure(a) == IF MayRetry(a) THEN "reconnect" ELSE "next_batch"

\* range(0, len(data), batch_size): is there an iteration after offset off?
HasNextBatch(off, bs, n) == off + bs < n

\* lines 132-148: the columns are the keys of the first record of the batch,
\* and record[col] raises KeyError for a record that lacks one of them
Columns(batch) == DOMAIN batch[1]
BuildFails(batch) == \E r \in 1..Len(batch) : ~(Columns(batch) \subseteq DOMAIN batch[r])

\* how far an attempt that failed got: the statement could not be built, there
\* was no handle to send it through, or the store refused it
FailedOp(batch, handle) ==
    IF BuildFails(batch) THEN "unbuilt"
    ELSE IF handle = "handle" THEN "submit" ELSE "unsent"

NoRecs == <<>>
Ev(op, b, a, recs, ok) == [op |-> op, batch |-> b, attempt |-> a, recs |-> recs, ok |-> ok]

\* a variant that keeps the connection open and only connects again
ReconnectStepsKeepOpen(b, a, up) ==
    << Ev("sleep", b, a, NoRecs, TRUE),
       Ev("sleep", b, a, NoRecs, TRUE),
       Ev("connect", b, a, NoRecs, up) >>

\* lines 165-171: time.sleep(2), disconnect(), time.sleep(1), connect()
ReconnectSteps(b, a, up) ==
    << Ev("sleep", b, a, NoRecs, TRUE),
       Ev("disconnect", b, a, NoRecs, TRUE),
       Ev("sleep", b, a, NoRecs, TRUE),
       Ev("connect", b, a, NoRecs, up) >>

\* a variant in which a connect that fails leaves the old handle in place
HandleAfterConnectStale(up) == "handle"

\* lines 47-49 and 25-45: disconnect() sets self.server to None and connect()
\* assigns it only when mindsdb_sdk.connect returned
HandleAfterConnect(up) == IF up THEN "handle" ELSE "none"

\* a variant that reports a partial run as a failure
FinalReportStrict(sb, tb) ==
    IF sb = tb THEN [outcome |-> "success", result |-> TRUE]
    ELSE [outcome |-> "failure", result |-> FALSE]

\* The three final reports of lines 181-190, with the value returned.
FinalReport(sb, tb) ==
    IF sb = tb THEN [outcome |-> "success", result |-> TRUE]
    ELSE IF sb > 0 THEN [outcome |-> "partial", result |-> TRUE]
    ELSE [outcome |-> "failure", result |-> FALSE]

\* a variant that counts the batch that failed as well
InsertedRecordsCeil(sb, bs) == (sb + 1) * bs

\* line 185: inserted_records = successful_batches * batch_size
InsertedRecords(sb, bs) == sb * bs

ExtractIdle ==
    file = <<>> /\ repo_url = "" /\ xpc = "idle" /\ functions = <<>> /\ runs = <<>>

IngestIdle ==
    /\ tree = <<>> /\ extensions = {} /\ exclude_dirs = {} /\ cleanup = TRUE
    /\ git_flag = FALSE /\ temp_dir = "none" /\ workdirs = {} /\ removals = <<>>
    /\ code_files = <<>> /\ fi = 0 /\ all_chunks = <<>> /\ errors = <<>>
    /\ ipc = "idle" /\ iexit = "none" /\ ingested = "none"

ConfigIdle ==
    /\ env = <<>> /\ dotenv = <<>> /\ class_defaults = <<>> /\ cfg = <<>> /\ cpc = "idle"

CliIdle ==
    /\ dry_run = FALSE /\ kpc = "idle" /\ exit_code = Running /\ output = ""

(***************************************************************************)
(* insert_data: the inputs.                                                *)
(***************************************************************************)
Records(n) == [k \in 1..n |-> [chunk_id |-> k]]

\* two records of which the second lacks a column of the first
RaggedRecords == <<[chunk_id |-> 1, author |-> "alice"], [chunk_id |-> 2]>>
RequestedSizes == (0..MaxSmallBatch) \cup (BatchCeiling..(BatchCeiling + MaxOver))

WriterIdle ==
    /\ data = <<>> /\ req_batch_size = 0 /\ batch_size = 0 /\ total_batches = 0
    /\ successful_batches = 0 /\ i = 0 /\ attempt = 0 /\ server = "handle"
    /\ pc = "idle" /\ result = "none" /\ outcome = "none" /\ events = <<>>
    /\ inserted_records = NotReported

InitWriter ==
    /\ \/ \E n \in 0..MaxChunks : data = Records(n)
       \/ data = RaggedRecords
    /\ req_batch_size \in RequestedSizes
    /\ TotalBatches(Len(data), EffectiveBatchSize(req_batch_size)) <= MaxBatches
    /\ server = "handle"        \* the caller connected first (cli.py 535-538)
    /\ batch_size = 0 /\ total_batches = 0 /\ successful_batches = 0
    /\ i = 0 /\ attempt = 0
    /\ pc = "call" /\ result = "none" /\ outcome = "none" /\ events = <<>>
    /\ inserted_records = NotReported
    /\ ExtractIdle /\ IngestIdle /\ ConfigIdle /\ CliIdle

(***************************************************************************)
(* insert_data: the steps.                                                 *)
(***************************************************************************)
\* lines 114-116: nothing to insert
InsertEmpty ==
    /\ pc = "call" /\ data = <<>>
    /\ result' = TRUE /\ outcome' = "empty" /\ pc' = "done"
    /\ UNCHANGED <<data, req_batch_size, batch_size, total_batches,
                   successful_batches, i, attempt, server, events>>
    /\ UNCHANGED inserted_records
    /\ UNCHANGED <<xvars, ivars, cvars, kvars>>

\* lines 118-127: sizes, counters, first batch
InsertBegin ==
    /\ pc = "call" /\ data /= <<>>
    /\ batch_size' = EffectiveBatchSize(req_batch_size)
    /\ total_batches' = TotalBatches(Len(data), batch_size')
    /\ successful_batches' = 0
    /\ i' = 0 /\ attempt' = 0
    /\ pc' = "attempt"
    /\ UNCHANGED <<data, req_batch_size, server, result, outcome, events>>
    /\ UNCHANGED inserted_records
    /\ UNCHANGED <<xvars, ivars, cvars, kvars>>

\* lines 131-159: the statement is built and submitted, and the store accepts it
SubmitOk ==
    /\ pc = "attempt" /\ server = "handle"
    /\ ~BuildFails(Slice(data, i, i + batch_size))
    /\ events' = Append(events, Ev("submit", BatchNum(i, batch_size), attempt,
                                   Slice(data, i, i + batch_size), TRUE))
    /\ successful_batches' = successful_batches + 1
    /\ pc' = "next_batch"
    /\ UNCHANGED <<data, req_batch_size, batch_size, total_batches, i, attempt,
                   server, result, outcome>>
    /\ UNCHANGED inserted_records
    /\ UNCHANGED <<xvars, ivars, cvars, kvars>>

\* lines 132-156, 161-176: building the statement raises KeyError, or
\* execute_query raises: the store refuses the statement, or there is no server
\* handle to send it through
SubmitFail ==
    /\ pc = "attempt"
    /\ events' = Append(events, Ev(FailedOp(Slice(data, i, i + batch_size), server),
                                   BatchNum(i, batch_size), attempt,
                                   Slice(data, i, i + batch_size), FALSE))
    /\ pc' = AfterFailure(attempt)
    /\ UNCHANGED <<data, req_batch_size, batch_size, total_batches,
                   successful_batches, i, attempt, server, result, outcome>>
    /\ UNCHANGED inserted_records
    /\ UNCHANGED <<xvars, ivars, cvars, kvars>>

\* lines 165-173: sleep 2, disconnect, sleep 1, connect (which may fail and then
\* leaves no handle), then the next attempt of the same batch
Reconnect ==
    /\ pc = "reconnect"
    /\ \E up \in BOOLEAN :
        /\ server' = HandleAfterConnect(up)
        /\ events' = events \o ReconnectSteps(BatchNum(i, batch_size), attempt, up)
    /\ attempt' = attempt + 1
    /\ pc' = "attempt"
    /\ UNCHANGED <<data, req_batch_size, batch_size, total_batches,
                   successful_batches, i, result, outcome>>
    /\ UNCHANGED inserted_records
    /\ UNCHANGED <<xvars, ivars, cvars, kvars>>

\* lines 178-179 and the head of the loop at line 125
NextBatch ==
    /\ pc = "next_batch"
    /\ events' = IF BatchNum(i, batch_size) < total_batches
                 THEN Append(events, Ev("pause", BatchNum(i, batch_size), attempt, NoRecs, TRUE))
                 ELSE events
    /\ IF HasNextBatch(i, batch_size, Len(data))
       THEN /\ i' = i + batch_size /\ attempt' = 0 /\ pc' = "attempt"
       ELSE /\ pc' = "finish" /\ UNCHANGED <<i, attempt>>
    /\ UNCHANGED <<data, req_batch_size, batch_size, total_batches,
                   successful_batches, server, result, outcome>>
    /\ UNCHANGED inserted_records
    /\ UNCHANGED <<xvars, ivars, cvars, kvars>>

\* lines 181-190
Finish ==
    /\ pc = "finish"
    /\ outcome' = FinalReport(successful_batches, total_batches).outcome
    /\ result' = FinalReport(successful_batches, total_batches).result
    /\ inserted_records' = IF FinalReport(successful_batches, total_batches).outcome = "partial"
                           THEN InsertedRecords(successful_batches, batch_size)
                           ELSE inserted_records
    /\ pc' = "done"
    /\ UNCHANGED <<data, req_batch_size, batch_size, total_batches,
                   successful_batches, i, attempt, server, events>>
    /\ UNCHANGED <<xvars, ivars, cvars, kvars>>

NextWriter ==
    \/ InsertEmpty
    \/ InsertBegin
    \/ SubmitOk
    \/ SubmitFail
    \/ Reconnect
    \/ NextBatch
    \/ Finish

SpecWriter == InitWriter /\ [][NextWriter]_vars
SpecWriterFair == SpecWriter /\ WF_vars(NextWriter)

(***************************************************************************)
(* What a run of insert_data did, read off its events.                     *)
(***************************************************************************)
\* the attempts the writer made: statements sent, or failed before sending
AttemptIdx == {k \in 1..Len(events) : events[k].op \in {"submit", "unsent", "unbuilt"}}
AttemptsOf(b) == {k \in AttemptIdx : events[k].batch = b}
BatchesTried == {events[k].batch : k \in AttemptIdx}
SucceededBatches == {events[k].batch : k \in {j \in AttemptIdx : events[j].ok}}
ExhaustedBatches ==
    {b \in BatchesTried : /\ b \notin SucceededBatches
                          /\ Cardinality(AttemptsOf(b)) >= max_retries}
Returned == pc = "done"

\* C1: insert_data returns the success outcome exactly when no batch exhausted
\* its attempts, so a partly landed run is told apart from a full success.
C1_SuccessIffEveryBatchSucceeded ==
    (Returned /\ data /= <<>>) => ((result = TRUE) <=> (ExhaustedBatches = {}))

\* C2: insert_data returns failure exactly when the input is non-empty and no
\* batch succeeded; an empty input returns success and submits nothing.
C2_FailureIffNothingLanded ==
    Returned =>
        /\ (result = FALSE) <=> (data /= <<>> /\ SucceededBatches = {})
        /\ data = <<>> => (result = TRUE /\ events = <<>>)

C2_Witness ==
    /\ Returned /\ result = FALSE
    /\ total_batches >= 2 /\ Cardinality(ExhaustedBatches) = total_batches

\* C3: an exhausted batch does not stop the run: every later batch is still
\* attempted and the batches that succeeded stay counted; 60 chunks at batch
\* size 25 with batch 2 refused three times end as 3 batches, 2 succeeded,
\* 1 failed, reported as a partial success.
C3_Scenario ==
    /\ Returned /\ Len(data) = 60 /\ req_batch_size = 25
    /\ ExhaustedBatches = {2} /\ SucceededBatches = {1, 3}
    /\ \A k \in AttemptsOf(2) : events[k].op = "submit"

C3_ExhaustedBatchIsNotFatal ==
    /\ successful_batches = Cardinality(SucceededBatches)
    /\ Returned => \A b \in ExhaustedBatches :
                      \A c \in (b + 1)..total_batches : c \in BatchesTried
    /\ C3_Scenario =>
          /\ total_batches = 3
          /\ successful_batches = 2
          /\ total_batches - successful_batches = 1
          /\ outcome = "partial"

C3_Witness == C3_Scenario

\* C4: every batch is attempted at least once and at most 3 times, attempt k+1
\* only after attempts 1..k failed, never again after a success; a write makes
\* at most 3 * ceil(n / e) attempts, and it terminates.
C4_AttemptsInOrder ==
    \A b \in BatchesTried :
        /\ Cardinality(AttemptsOf(b)) <= 3
        /\ {events[k].attempt : k \in AttemptsOf(b)} = 0..(Cardinality(AttemptsOf(b)) - 1)
        /\ \A k, l \in AttemptsOf(b) :
              k < l => (events[k].attempt < events[l].attempt /\ ~events[k].ok)

C4_Safety ==
    /\ C4_AttemptsInOrder
    /\ Cardinality(AttemptIdx)
          <= 3 * TotalBatches(Len(data), EffectiveBatchSize(req_batch_size))
    /\ (Returned /\ data /= <<>>) => BatchesTried = 1..total_batches

C4_BoundedRetries == []C4_Safety /\ <>Returned

C4_Witness ==
    /\ Returned /\ total_batches = 3
    /\ Cardinality(AttemptsOf(1)) = 3 /\ 1 \in SucceededBatches
    /\ Cardinality(AttemptsOf(2)) = 3 /\ 2 \in ExhaustedBatches
    /\ Cardinality(AttemptsOf(3)) = 1

\* C5: for a positive requested size b the effective size is e = min(b, 25) and
\* the batches are the consecutive slices [0,e), [e,2e), ...: 1..e chunks
\* each, exactly e in all but the last, every chunk in exactly one batch, in
\* input order.
RECURSIVE ConcatBatches(_)
ConcatBatches(b) ==
    IF b = 0 THEN <<>>
    ELSE ConcatBatches(b - 1) \o events[CHOOSE k \in AttemptsOf(b) : events[k].attempt = 0].recs

C5_ConsecutiveSlices ==
    (req_batch_size > 0 /\ pc \notin {"call"} /\ data /= <<>>) =>
        LET e == Min(req_batch_size, 25) IN
        /\ batch_size = e
        /\ \A k \in AttemptIdx :
              LET b == events[k].batch
                  r == events[k].recs IN
              /\ Len(r) >= 1 /\ Len(r) <= e
              /\ b < total_batches => Len(r) = e
              /\ r = [j \in 1..Len(r) |-> data[(b - 1) * e + j]]
        /\ Returned => ConcatBatches(total_batches) = data

C5_Witness ==
    /\ Returned /\ req_batch_size > BatchCeiling /\ total_batches = 3
    /\ Len(data) % BatchCeiling /= 0

\* C6: when insert_data returns, every batch is in exactly one terminal state,
\* succeeded or failed after exhausting its attempts, and
\* succeeded + failed = attempted.
C6_EveryBatchTerminal ==
    Returned =>
        /\ SucceededBatches \cap ExhaustedBatches = {}
        /\ SucceededBatches \cup ExhaustedBatches = 1..total_batches
        /\ Cardinality(SucceededBatches) + Cardinality(ExhaustedBatches) = total_batches
        /\ successful_batches = Cardinality(SucceededBatches)

C6_Witness ==
    /\ Returned /\ SucceededBatches /= {} /\ ExhaustedBatches /= {}
    /\ Len(data) = total_batches * batch_size

(***************************************************************************)
(* Claims about the reconnect between two attempts.                        *)
(***************************************************************************)
\* the attempt that follows attempt k in the log, Len(events) + 1 if none
NextAttemptIdx(k) ==
    LET later == {l \in AttemptIdx : l > k} IN
    IF later = {} THEN Len(events) + 1 ELSE CHOOSE l \in later : \A m \in later : l <= m

\* the operations logged strictly between positions k and l
OpsBetween(k, l) == [m \in 1..(l - k - 1) |-> events[k + m].op]

\* C22: between two consecutive attempts on the same batch the writer does
\* exactly: wait, disconnect, wait, connect, in that order; after a successful
\* submission and after the third failed attempt of a batch it neither
\* disconnects nor connects.
C22_ReconnectBetweenAttempts ==
    \A k \in AttemptIdx :
        LET l == NextAttemptIdx(k) IN
        /\ (l <= Len(events) /\ events[l].batch = events[k].batch) =>
              /\ ~events[k].ok
              /\ events[l].attempt = events[k].attempt + 1
              /\ OpsBetween(k, l) = <<"sleep", "disconnect", "sleep", "connect">>
        /\ (events[k].ok \/ events[k].attempt = max_retries - 1) =>
              \A m \in (k + 1)..(l - 1) : events[m].op \notin {"disconnect", "connect"}
        /\ (l <= Len(events) /\ events[l].batch /= events[k].batch) =>
              OpsBetween(k, l) = <<"pause">>
        /\ (l = Len(events) + 1 /\ Len(events) > k) =>
              \/ OpsBetween(k, l) = <<"pause">>
              \/ /\ OpsBetween(k, l) = <<"sleep", "disconnect", "sleep", "connect">>
                 /\ ~events[k].ok /\ events[k].attempt < max_retries - 1

C22_Witness ==
    /\ Returned /\ total_batches = 2
    /\ Cardinality(AttemptsOf(1)) = 3 /\ 1 \in ExhaustedBatches
    /\ Cardinality(AttemptsOf(2)) = 2 /\ 2 \in SucceededBatches
    /\ Cardinality({k \in 1..Len(events) : events[k].op = "disconnect"}) = 3
    /\ Cardinality({k \in 1..Len(events) : events[k].op = "connect"}) = 3

\* the reconnects that failed
FailedConnects == {m \in 1..Len(events) : events[m].op = "connect" /\ ~events[m].ok}

C28_Safety ==
    /\ \A m \in FailedConnects :
          IF m = Len(events)
          THEN /\ pc = "attempt" /\ server = "none"
               /\ attempt = events[m].attempt + 1 /\ attempt < max_retries
               /\ BatchNum(i, batch_size) = events[m].batch
          ELSE /\ events[m + 1].op \in {"unsent", "unbuilt"} /\ ~events[m + 1].ok
               /\ events[m + 1].batch = events[m].batch
               /\ events[m + 1].attempt = events[m].attempt + 1
    /\ \A b \in BatchesTried : Cardinality(AttemptsOf(b)) <= max_retries
    /\ Returned => BatchesTried = 1..total_batches

\* the step taken after a reconnect that failed is the next attempt
C28_Step ==
    (Len(events) \in FailedConnects) =>
        /\ Len(events') = Len(events) + 1
        /\ events'[Len(events')].op \in {"unsent", "unbuilt"}
        /\ pc' \in {"reconnect", "next_batch"}

\* C28: if the reconnect between two attempts fails and leaves no server
\* handle, neither the batch nor the run is aborted: the next attempt is still
\* made, it fails without reaching the store, and it counts against the
\* batch's 3-attempt ceiling.
C28_FailedReconnectStillRetries == []C28_Safety /\ [][C28_Step]_vars

C28_Witness ==
    /\ Returned /\ total_batches = 2
    /\ \E m \in FailedConnects : events[m].batch = 1 /\ events[m].attempt = 0
    /\ Cardinality(AttemptsOf(1)) = 3 /\ 1 \in SucceededBatches
    /\ Cardinality({k \in AttemptsOf(1) : events[k].op = "unsent"}) = 1
    /\ 2 \in BatchesTried

(***************************************************************************)
(* Claims about the record count of the partial report.                    *)
(***************************************************************************)
\* the records of the batches the store accepted
RECURSIVE LandedUpTo(_)
LandedUpTo(k) ==
    IF k = 0 THEN 0
    ELSE LandedUpTo(k - 1)
         + (IF k \in AttemptIdx /\ events[k].ok THEN Len(events[k].recs) ELSE 0)
Landed == LandedUpTo(Len(events))

\* C29: on partial success the record count insert_data reports,
\* successful_batches * effective batch size, is never smaller than the number
\* of records in the batches that succeeded and is strictly smaller than the
\* number of input records.
C29_PartialCountBounds ==
    (Returned /\ outcome = "partial") =>
        /\ inserted_records = successful_batches * EffectiveBatchSize(req_batch_size)
        /\ inserted_records >= Landed
        /\ inserted_records < Len(data)

C29_Witness ==
    /\ Returned /\ outcome = "partial" /\ total_batches = 3
    /\ SucceededBatches = {3} /\ Len(data) = 60
    /\ Landed = 10 /\ inserted_records = 25

(***************************************************************************)
(* File content.  A file's text is the list of its '\n'-separated lines    *)
(* (content.split('\n'), line 105); a line is its leading whitespace and    *)
(* the text that follows it.                                                *)
(***************************************************************************)
Space == " "
Tab == "\t"
Line(ws, text) == [ws |-> ws, text |-> text]
BlankLine == Line(<<>>, "")
EmptyText == <<BlankLine>>
Repeat(l, n) == [k \in 1..n |-> l]

\* bool(line.strip()): something other than whitespace is on the line
NonBlank(l) == l.text /= ""

\* line.startswith(' ' * k)
StartsWithSpaces(l, k) == k <= Len(l.ws) /\ \A m \in 1..k : l.ws[m] = Space

\* str.strip() of the joined lines: leading and trailing whitespace, line
\* breaks included, is removed
strip(lines) ==
    LET inked == {k \in 1..Len(lines) : NonBlank(lines[k])} IN
    IF inked = {} THEN EmptyText
    ELSE LET first == CHOOSE k \in inked : \A m \in inked : k <= m
             last == CHOOSE k \in inked : \A m \in inked : m <= k
         IN [k \in 1..(last - first + 1) |->
                IF k = 1 THEN Line(<<>>, lines[first].text) ELSE lines[first + k - 1]]

(***************************************************************************)
(* The patterns of extract_functions_fallback, evaluated on the texts the  *)
(* model's files are made of.                                              *)
(***************************************************************************)
NoMatch == [type |-> "", name |-> ""]
Match(type, name) == [type |-> type, name |-> name]

\* ^(\s*)(def|class)\s+([a-zA-Z_][a-zA-Z0-9_]*)\s*\(.*?\):        (line 110)
func_pattern(text) ==
    CASE text = "def hello():" -> Match("def", "hello")
      [] text = "def world():" -> Match("def", "world")
      [] text = "def inner():" -> Match("def", "inner")
      [] text = "def my_method(self):" -> Match("def", "my_method")
      [] text = "class Base(object):" -> Match("class", "Base")
      [] OTHER -> NoMatch

\* the four patterns of lines 140-145, in their order; the name is group 3,
\* or group 2 when the pattern has two groups (line 152)
patterns(k, text) ==
    CASE k = 1 /\ text = "function greet() {" -> Match("function", "greet")
      [] k = 1 /\ text = "function noop() {}" -> Match("function", "noop")
      [] k = 2 /\ text = "const add = (a, b) => {" -> Match("function", "add")
      [] k = 3 /\ text = "class Box {" -> Match("function", "Box")
      [] k = 4 /\ text = "render() {" -> Match("function", "render")
      [] k = 4 /\ text = "if (x) {" -> Match("function", "if")
      [] OTHER -> NoMatch
NumPatterns == 4

\* line.count('{') - line.count('}')                          (lines 154, 158)
BraceDelta(text) ==
    CASE text \in {"function greet() {", "const add = (a, b) => {", "class Box {",
                   "render() {", "if (x) {"} -> 1
      [] text = "}" -> 0 - 1
      [] OTHER -> 0

Func(name, type, lines, first, last) ==
    [name |-> name, type |-> type, content |-> SubSeq(lines, first, last),
     start_line |-> first, end_line |-> last,
     line_range |-> ToString(first) \o "-" \o ToString(last)]

(***************************************************************************)
(* extract_functions_fallback.  Positions are 1-based line numbers: the    *)
(* code's index i is line i + 1.                                           *)
(***************************************************************************)
\* the smallest element of a non-empty set of line numbers
First(S) == CHOOSE q \in S : \A r \in S : q <= r

\* the line numbers 1..n in order (enumerate(lines), lines 112 and 147)
LineNumbers(n) == [p \in 1..n |-> p]

\* lines 119-124: the last line of the block opened at indentation indent,
\* scanning from line q on
PyBlockEnd(lines, q, indent) ==
    LET stops == {r \in q..Len(lines) :
                    /\ NonBlank(lines[r])
                    /\ ~StartsWithSpaces(lines[r], indent + 1)
                    /\ StartsWithSpaces(lines[r], indent)}
    IN IF stops = {} THEN Len(lines) ELSE First(stops) - 1

\* lines 112-135
PyScan(lines) ==
    LET hits == SelectSeq(LineNumbers(Len(lines)),
                         LAMBDA p : func_pattern(lines[p].text) /= NoMatch) IN
    [k \in 1..Len(hits) |->
        LET p == hits[k]
            m == func_pattern(lines[p].text)
        IN Func(m.name, m.type, lines, p, PyBlockEnd(lines, p + 1, Len(lines[p].ws)))]

\* the sum of line.count('{') - line.count('}') over lines lo..hi
RECURSIVE BraceCount(_, _, _)
BraceCount(lines, lo, hi) ==
    IF lo > hi THEN 0
    ELSE IF lo = hi THEN BraceDelta(lines[lo].text)
    ELSE LET mid == (lo + hi) \div 2 IN
         BraceCount(lines, lo, mid) + BraceCount(lines, mid + 1, hi)

\* lines 154-161: the first line after p at which the running balance is zero,
\* and p itself when there is none
BraceBlockEnd(lines, p) ==
    LET closes == {q \in (p + 1)..Len(lines) : BraceCount(lines, p, q) = 0}
    IN IF closes = {} THEN p ELSE First(closes)

\* a variant that names the chunk after the kind of block instead of the
\* identifier the winning pattern captured
FirstPatternKind(text) ==
    LET hits == {k \in 1..NumPatterns : patterns(k, text) /= NoMatch} IN
    IF hits = {} THEN NoMatch
    ELSE Match(patterns(First(hits), text).type, patterns(First(hits), text).type)

\* lines 148-150, 173: the first pattern that matches the line
FirstPattern(text) ==
    LET hits == {k \in 1..NumPatterns : patterns(k, text) /= NoMatch} IN
    IF hits = {} THEN NoMatch ELSE patterns(First(hits), text)

\* lines 147-173
JsScan(lines) ==
    LET hits == SelectSeq(LineNumbers(Len(lines)),
                         LAMBDA p : FirstPattern(lines[p].text) /= NoMatch) IN
    [k \in 1..Len(hits) |->
        LET p == hits[k]
            m == FirstPattern(lines[p].text)
        IN Func(m.name, "function", lines, p, BraceBlockEnd(lines, p))]

\* a variant that emits every window, blank ones included
WindowKeptAlways(lines) == TRUE

\* line 181: if chunk_content.strip()
WindowKept(lines) == strip(lines) /= EmptyText

\* a variant whose windows end at i + chunk_size even past the last line
WindowEndUnclamped(first, n) == first + chunk_size - 1

\* line 187: min(i + chunk_size, len(lines))
WindowEnd(first, n) == Min(first + chunk_size - 1, n)

\* a variant that numbers the windows from zero
WindowNameZeroBased(p) == "chunk_" \o ToString((p - 1) \div chunk_size)

\* line 183: f'chunk_{i//chunk_size + 1}' for the window that starts at line p
WindowName(p) == "chunk_" \o ToString(((p - 1) \div chunk_size) + 1)

\* lines 176-189: the windows from line p on
RECURSIVE Windows(_, _)
Windows(lines, p) ==
    IF p > Len(lines) THEN <<>>
    ELSE (IF WindowKept(SubSeq(lines, p, Min(p + chunk_size - 1, Len(lines))))
          THEN <<[name |-> WindowName(p),
                  type |-> "code_chunk",
                  content |-> SubSeq(lines, p, Min(p + chunk_size - 1, Len(lines))),
                  start_line |-> p,
                  end_line |-> WindowEnd(p, Len(lines)),
                  line_range |-> ToString(p) \o "-" \o ToString(WindowEnd(p, Len(lines)))]>>
          ELSE <<>>)
         \o Windows(lines, p + chunk_size)

\* a variant without the windowing of lines 175-189
NoFallback(found, lines) == found

\* a variant that windows every file, recognized blocks or not
FallbackAlways(found, lines) == found \o Windows(lines, 1)

\* lines 175-191
WithFallback(found, lines) == IF found = <<>> THEN Windows(lines, 1) ELSE found

\* lines 102-191
extract_functions_fallback(content, language) ==
    WithFallback(
        IF language = "python" THEN PyScan(content)
        ELSE IF language \in {"javascript", "typescript"} THEN JsScan(content)
        ELSE <<>>,
        content)

(***************************************************************************)
(* process_file and what it reads.                                         *)
(***************************************************************************)
LANGUAGE_MAPPING ==
    [e \in {".py", ".js", ".jsx", ".ts", ".tsx", ".go", ".java", ".rs", ".cpp",
            ".cc", ".cxx", ".c", ".h", ".hpp"} |->
        CASE e = ".py" -> "python"
          [] e \in {".js", ".jsx"} -> "javascript"
          [] e \in {".ts", ".tsx"} -> "typescript"
          [] e = ".go" -> "go"
          [] e = ".java" -> "java"
          [] e = ".rs" -> "rust"
          [] e \in {".cpp", ".cc", ".cxx", ".hpp"} -> "cpp"
          [] OTHER -> "c"]

\* str.lower() on the extensions the model's files carry
Lower(e) == CASE e = ".PY" -> ".py" [] e = ".JS" -> ".js" [] OTHER -> e

\* LANGUAGE_MAPPING.get(file_ext, 'text')                  (lines 247-248)
LanguageOf(e) ==
    IF Lower(e) \in DOMAIN LANGUAGE_MAPPING THEN LANGUAGE_MAPPING[Lower(e)] ELSE "text"

\* the working copy made by clone_repository (line 60)
repo_path == <<"tmp", "semantic_nav_1">>

\* the absolute path of a file of the working copy
FilePath(f) == repo_path \o f.dir \o <<f.name \o f.ext>>

RECURSIVE JoinPath(_)
JoinPath(parts) ==
    IF Len(parts) = 0 THEN "."
    ELSE IF Len(parts) = 1 THEN parts[1]
    ELSE parts[1] \o "/" \o JoinPath(Tail(parts))

\* os.path.relpath(path, start) for a path below start
relpath(path, start) == JoinPath(SubSeq(path, Len(start) + 1, Len(path)))

\* dict.get(key, default)
Get(d, key, default) == IF key \in DOMAIN d THEN d[key] ELSE default

\* lines 193-233: the metadata dictionary
extract_git_metadata(f, extract_git_info) ==
    IF extract_git_info /\ f.git = "commit"
    THEN [k \in {"author", "last_modified", "commit_hash", "repo"} |->
            CASE k = "author" -> "alice"
              [] k = "last_modified" -> "commit-time"
              [] k = "commit_hash" -> "0a1b2c3d"
              [] OTHER -> "origin-url"]
    ELSE IF extract_git_info /\ f.git = "nocommit"
    THEN [k \in {"last_modified", "repo"} |->
            IF k = "last_modified" THEN "mtime" ELSE "origin-url"]
    ELSE [k \in {"last_modified", "repo"} |->
            IF k = "last_modified" THEN "mtime" ELSE JoinPath(repo_path)]

\* hashlib.md5(key).hexdigest()[:12]: a fixed function of the key; the digest
\* is taken to be free of collisions between the keys of one model run
md5_hex12(key) == [md5_12 |-> key]

\* a variant that hashes the chunk's position as well
chunk_id_positional(url, rel, func) ==
    md5_hex12(url \o ":" \o rel \o ":" \o func.name \o ":" \o ToString(func.start_line))

\* lines 255-257
chunk_id_of(url, rel, func) == md5_hex12(url \o ":" \o rel \o ":" \o func.name)

\* a variant that leaves line_range out of the chunks that have none
ChunkSparse(f, url, language, func, git_metadata, extract_git_info) ==
    [k \in {"code_chunk", "filepath", "language", "function_name", "repo",
            "last_modified", "chunk_id", "author"}
           \cup (IF extract_git_info THEN {"line_range"} ELSE {})
           \cup (IF language = "python" THEN {"line_range"} ELSE {}) |->
        CASE k = "code_chunk" -> strip(func.content)
          [] k = "filepath" -> relpath(FilePath(f), repo_path)
          [] k = "language" -> language
          [] k = "function_name" -> func.name
          [] k = "repo" -> url
          [] k = "last_modified" -> Get(git_metadata, "last_modified", "")
          [] k = "chunk_id" -> md5_hex12(url \o ":" \o relpath(FilePath(f), repo_path)
                                             \o ":" \o func.name)
          [] k = "author" -> IF extract_git_info THEN Get(git_metadata, "author", "") ELSE ""
          [] OTHER -> IF extract_git_info THEN func.line_range ELSE ""]

\* a variant that fills author and line_range whatever the flag says
ChunkUngated(f, url, language, func, git_metadata, extract_git_info) ==
    [code_chunk |-> strip(func.content),
     filepath |-> relpath(FilePath(f), repo_path),
     language |-> language,
     function_name |-> func.name,
     repo |-> url,
     last_modified |-> Get(git_metadata, "last_modified", ""),
     chunk_id |-> chunk_id_of(url, relpath(FilePath(f), repo_path), func),
     author |-> Get(git_metadata, "author", ""),
     line_range |-> func.line_range]

\* lines 254-285: one chunk
Chunk(f, url, language, func, git_metadata, extract_git_info) ==
    [code_chunk |-> strip(func.content),
     filepath |-> relpath(FilePath(f), repo_path),
     language |-> language,
     function_name |-> func.name,
     repo |-> url,
     last_modified |-> Get(git_metadata, "last_modified", ""),
     chunk_id |-> chunk_id_of(url, relpath(FilePath(f), repo_path), func),
     author |-> IF extract_git_info THEN Get(git_metadata, "author", "") ELSE "",
     line_range |-> IF extract_git_info THEN func.line_range ELSE ""]

\* lines 244-245: if not content.strip(): return chunks
SkipsBlankFile(content) == strip(content) = EmptyText

\* bytes decoded as UTF-8 with errors='ignore' (line 241), on the lines the
\* model's files are made of: the bytes that are not valid UTF-8 are dropped
decode_ignore(l) ==
    CASE l.text = "<ff><fe>" -> Line(l.ws, "")
      [] l.text = "x = 1<ff>" -> Line(l.ws, "x = 1")
      [] OTHER -> l

\* lines 241-242: f.read() of a file that could be opened
read(f) == [k \in 1..Len(f.content) |-> decode_ignore(f.content[k])]

\* lines 241, 287-288: open() or read() raises and the error is printed
process_file_fails(f) == ~f.readable

\* lines 235-290
process_file(f, url, extract_git_info) ==
    IF process_file_fails(f) THEN <<>>
    ELSE IF SkipsBlankFile(read(f)) THEN <<>>
    ELSE LET language == LanguageOf(f.ext)
             found == extract_functions_fallback(read(f), language)
             git_metadata == extract_git_metadata(f, extract_git_info)
         IN [k \in 1..Len(found) |->
                Chunk(f, url, language, found[k], git_metadata, extract_git_info)]

Run(f, url, extract_git_info) ==
    [file |-> f, repo_url |-> url, extract_git_info |-> extract_git_info,
     chunks |-> process_file(f, url, extract_git_info)]

(***************************************************************************)
(* The files the model extracts from.                                      *)
(***************************************************************************)
PyLines ==
    {BlankLine, Line(<<Space>>, ""), Line(<<>>, "def hello():"),
     Line(<<Space>>, "def inner():"), Line(<<>>, "class MyClass:"),
     Line(<<>>, "class Base(object):"), Line(<<Space>>, "return 1"),
     Line(<<>>, "x = 1"), Line(<<Tab>>, "return 1")}
JsLines ==
    {BlankLine, Line(<<>>, "x = 1"), Line(<<>>, "function greet() {"),
     Line(<<>>, "}"), Line(<<>>, "const add = (a, b) => {"), Line(<<>>, "class Box {"),
     Line(<<Space>>, "render() {"), Line(<<>>, "function noop() {}")}
TextLines ==
    {BlankLine, Line(<<Space>>, ""), Line(<<>>, "x = 1"), Line(<<>>, "def hello():")}
LinesOf(e) ==
    CASE LanguageOf(e) = "python" -> PyLines
      [] LanguageOf(e) \in {"javascript", "typescript"} -> JsLines
      [] OTHER -> TextLines

\* every text of 1..MaxLines lines
ShortContents(e) == UNION {[1..n -> LinesOf(e)] : n \in 1..MaxLines}

\* texts around the window size, and the 120 lines of the windowing scenario:
\* one first line followed by copies of one filler line
LongLengths == {chunk_size - 1, chunk_size, chunk_size + 1, 2 * chunk_size + 20}
Fillers == {BlankLine, Line(<<>>, "x = 1"), Line(<<Space>>, "return 1")}
LongContents(e) ==
    {<<first>> \o Repeat(filler, n - 1) :
        first \in LinesOf(e), filler \in Fillers, n \in LongLengths}

\* the texts of the unit tests and of the documented scenarios: two top-level
\* functions separated by a blank line, a class without a base list that holds
\* one method, and 60 lines of plain code ending in a line break
Indent(n) == Repeat(Space, n)
ScenarioContents(e) ==
    CASE LanguageOf(e) = "python" ->
           {<<Line(<<>>, "def hello():"), Line(Indent(4), "return 1"), BlankLine,
              Line(<<>>, "def world():"), Line(Indent(4), "return 2")>>,
            <<Line(<<>>, "class MyClass:"), Line(Indent(4), "def my_method(self):"),
              Line(Indent(8), "return 1")>>}
      [] LanguageOf(e) \in {"javascript", "typescript"} ->
           {Repeat(Line(<<>>, "console.log('line 1');"), chunk_size + 10) \o <<BlankLine>>}
      [] OTHER -> {}

Contents(e) == ShortContents(e) \cup LongContents(e) \cup ScenarioContents(e)
Extensions == {".py", ".js", ".ts", ".go", ".txt"}

File(dir, name, e, content, readable, git) ==
    [dir |-> dir, name |-> name, ext |-> e, content |-> content,
     readable |-> readable, git |-> git]

InitExtract ==
    /\ \E e \in Extensions : \E c \in Contents(e) :
          file = File(<<"src">>, "app", e, c, TRUE, "commit")
    /\ repo_url = "https://host/a.git"
    /\ xpc = "file" /\ functions = <<>> /\ runs = <<>>
    /\ WriterIdle /\ IngestIdle /\ ConfigIdle /\ CliIdle

\* a direct call of extract_functions_fallback on the file's text
Extract ==
    /\ xpc = "file"
    /\ functions' = extract_functions_fallback(file.content, LanguageOf(file.ext))
    /\ xpc' = "extracted"
    /\ UNCHANGED <<file, repo_url, runs>>
    /\ UNCHANGED <<wvars, ivars, cvars, kvars>>

\* a call of process_file on the file (lines 325-329)
ProcessFile ==
    /\ xpc = "file"
    /\ \E flag \in BOOLEAN : runs' = <<Run(file, repo_url, flag)>>
    /\ xpc' = "processed"
    /\ UNCHANGED <<file, repo_url, functions>>
    /\ UNCHANGED <<wvars, ivars, cvars, kvars>>

NextExtract ==
    \/ Extract
    \/ ProcessFile

SpecExtract == InitExtract /\ [][NextExtract]_vars

(***************************************************************************)
(* Repeated ingestion of one file: process_file runs again after the file  *)
(* or its history changed, and with either value of extract_git_info.      *)
(***************************************************************************)
Opener(e) ==
    CASE LanguageOf(e) = "python" -> Line(<<>>, "def hello():")
      [] LanguageOf(e) \in {"javascript", "typescript"} -> Line(<<>>, "function greet() {")
      [] OTHER -> Line(<<>>, "x = 1")

RerunContents(e) ==
    {<<Opener(e)>>,
     <<Line(<<>>, "x = 1"), Opener(e)>>,
     <<Opener(e), Line(<<Space>>, "return 1")>>,
     <<Opener(e), Opener(e)>>,
     <<Line(<<>>, "x = 1")>>}
RerunExtensions == {".py", ".PY", ".js"}
RepoUrls == {"https://host/a.git", "https://host/b.git"}

InitRerun ==
    /\ \E dir \in {<<>>, <<"src">>}, e \in RerunExtensions :
          \E c \in RerunContents(e), git \in {"commit", "nocommit", "error"} :
              file = File(dir, "app", e, c, TRUE, git)
    /\ repo_url \in RepoUrls
    /\ xpc = "rerun" /\ functions = <<>> /\ runs = <<>>
    /\ WriterIdle /\ IngestIdle /\ ConfigIdle /\ CliIdle

\* the two most recent runs
LastTwo(rs) == IF Len(rs) <= 2 THEN rs ELSE Tail(rs)

\* process_file is called on the file as it is now (lines 325-329)
Reingest ==
    /\ xpc = "rerun"
    /\ \E flag \in BOOLEAN : runs' = LastTwo(Append(runs, Run(file, repo_url, flag)))
    /\ UNCHANGED <<file, repo_url, xpc, functions>>
    /\ UNCHANGED <<wvars, ivars, cvars, kvars>>

\* the file's text changes between two ingestions
EditFile ==
    /\ xpc = "rerun"
    /\ \E c \in RerunContents(file.ext) \ {file.content} :
          file' = [file EXCEPT !.content = c]
    /\ UNCHANGED <<repo_url, xpc, functions, runs>>
    /\ UNCHANGED <<wvars, ivars, cvars, kvars>>

\* the file's history changes between two ingestions
Commit ==
    /\ xpc = "rerun"
    /\ file' = [file EXCEPT !.git = IF file.git = "commit" THEN "nocommit" ELSE "commit"]
    /\ UNCHANGED <<repo_url, xpc, functions, runs>>
    /\ UNCHANGED <<wvars, ivars, cvars, kvars>>

NextRerun ==
    \/ Reingest
    \/ EditFile
    \/ Commit

SpecRerun == InitRerun /\ [][NextRerun]_vars

(***************************************************************************)
(* Claims about the extraction.                                            *)
(***************************************************************************)
Extracted == xpc = "extracted"
Processed == xpc = "processed"

\* C7: every file content that is non-empty after trimming yields at least one
\* chunk, whatever the language tag.
C7_NonEmptyFileYieldsChunk ==
    /\ (Extracted /\ strip(file.content) /= EmptyText) => Len(functions) >= 1
    /\ \A r \in 1..Len(runs) :
          strip(runs[r].file.content) /= EmptyText => Len(runs[r].chunks) >= 1

C7_Witness ==
    /\ Processed /\ LanguageOf(file.ext) = "python"
    /\ Len(runs[1].chunks) = 1 /\ runs[1].chunks[1].function_name = "chunk_1"
    /\ file.content[1] = Line(<<>>, "class MyClass:")

\* C8: every chunk emitted, by a Python block, a C-like block or a fallback
\* window, has content that is non-empty after trimming.
C8_NoEmptyChunk ==
    /\ \A k \in 1..Len(functions) : strip(functions[k].content) /= EmptyText
    /\ \A r \in 1..Len(runs) : \A k \in 1..Len(runs[r].chunks) :
          runs[r].chunks[k].code_chunk /= EmptyText

C8_Witness ==
    /\ Extracted /\ Len(file.content) = chunk_size + 1
    /\ NonBlank(file.content[1]) /\ ~NonBlank(file.content[chunk_size + 1])
    /\ Len(functions) = 1 /\ functions[1].name = "chunk_1"

ChunkIds(run) == [k \in 1..Len(run.chunks) |-> run.chunks[k].chunk_id]

C10_ChunkIdFromNaming ==
    \A a, b \in 1..Len(runs) :
        /\ \A k \in 1..Len(runs[a].chunks), l \in 1..Len(runs[b].chunks) :
              LET c == runs[a].chunks[k]
                  d == runs[b].chunks[l] IN
              (c.repo = d.repo /\ c.filepath = d.filepath
                  /\ c.function_name = d.function_name) => c.chunk_id = d.chunk_id
        /\ (runs[a].file.content = runs[b].file.content
               /\ runs[a].repo_url = runs[b].repo_url)
              => ChunkIds(runs[a]) = ChunkIds(runs[b])

C10_Witness ==
    /\ Len(runs) = 2
    /\ runs[1].extract_git_info /= runs[2].extract_git_info
    /\ runs[1].file.git /= runs[2].file.git
    /\ \E k \in 1..Len(runs[1].chunks), l \in 1..Len(runs[2].chunks) :
          /\ runs[1].chunks[k].function_name = runs[2].chunks[l].function_name
          /\ runs[1].chunks[k].code_chunk /= runs[2].chunks[l].code_chunk
          /\ runs[1].chunks[k].line_range /= runs[2].chunks[l].line_range
          /\ runs[1].chunks[k].author /= runs[2].chunks[l].author

(***************************************************************************)
(* Claims about the blocks and the windows of extract_functions_fallback.  *)
(***************************************************************************)
IsPython == LanguageOf(file.ext) = "python"

\* a line that opens a top-level function definition
IsTopLevelDef(l) == l.ws = <<>> /\ func_pattern(l.text).type = "def"

\* a text made of top-level function definitions: every line is a blank line,
\* the header of a top-level definition or a space-indented line of a body
C11_TopLevelDefs(lines) ==
    /\ IsTopLevelDef(lines[1])
    /\ \A p \in 1..Len(lines) :
          \/ ~NonBlank(lines[p])
          \/ IsTopLevelDef(lines[p])
          \/ /\ StartsWithSpaces(lines[p], 1)
             /\ \A m \in 1..Len(lines[p].ws) : lines[p].ws[m] = Space
             /\ func_pattern(lines[p].text) = NoMatch

\* the last line of the definition opened at line p: its last non-blank line
\* before the next definition
C11_OwnLastLine(lines, p) ==
    LET own == {q \in p..Len(lines) :
                  /\ NonBlank(lines[q])
                  /\ \A r \in (p + 1)..q : ~IsTopLevelDef(lines[r])}
    IN CHOOSE q \in own : \A r \in own : r <= q

C11_HelloWorld ==
    <<Line(<<>>, "def hello():"), Line(Indent(4), "return 1"), BlankLine,
      Line(<<>>, "def world():"), Line(Indent(4), "return 2")>>

\* C11: Python source made of top-level function definitions separated by blank
\* lines yields one chunk per definition, named by its identifier, in source
\* order, each spanning exactly the definition's own lines; hello and world,
\* two lines each with a blank line between them, yield two 2-line chunks.
C11_OneChunkPerDefinition ==
    (Extracted /\ IsPython /\ C11_TopLevelDefs(file.content)) =>
        LET lines == file.content
            heads == SelectSeq(LineNumbers(Len(lines)), LAMBDA p : IsTopLevelDef(lines[p]))
        IN /\ Len(functions) = Len(heads)
           /\ \A k \in 1..Len(heads) :
                 /\ functions[k].name = func_pattern(lines[heads[k]].text).name
                 /\ functions[k].start_line = heads[k]
                 /\ functions[k].end_line = C11_OwnLastLine(lines, heads[k])
           /\ lines = C11_HelloWorld =>
                 /\ functions[1].name = "hello" /\ functions[2].name = "world"
                 /\ \A k \in 1..2 : functions[k].end_line - functions[k].start_line + 1 = 2

\* the class a line declares, with or without a base list ("" when none)
C12_DeclaredClass(text) ==
    CASE text = "class MyClass:" -> "MyClass"
      [] text = "class Base(object):" -> "Base"
      [] OTHER -> ""

C12_ClassWithMethod ==
    <<Line(<<>>, "class MyClass:"), Line(Indent(4), "def my_method(self):"),
      Line(Indent(8), "return 1")>>

\* C12: a Python class declaration opens a chunk of its own whether or not it
\* has a parenthesised base list; a class written `class NAME:` that holds one
\* method yields exactly two chunks, the class first and the method second.
C12_ClassOpensChunk ==
    (Extracted /\ IsPython) =>
        /\ \A p \in 1..Len(file.content) :
              C12_DeclaredClass(file.content[p].text) /= "" =>
                 \E k \in 1..Len(functions) :
                    /\ functions[k].start_line = p
                    /\ functions[k].name = C12_DeclaredClass(file.content[p].text)
        /\ file.content = C12_ClassWithMethod =>
              /\ Len(functions) = 2
              /\ functions[1].name = "MyClass" /\ functions[2].name = "my_method"

\* some line of the text opens a block the language's patterns recognize
Recognized(lines, language) ==
    CASE language = "python" ->
           \E p \in 1..Len(lines) : func_pattern(lines[p].text) /= NoMatch
      [] language \in {"javascript", "typescript"} ->
           \E p \in 1..Len(lines) : FirstPattern(lines[p].text) /= NoMatch
      [] OTHER -> FALSE

\* the text is cut into consecutive 50-line windows and the chunks are, in
\* order, the windows that are not blank: window n is named chunk_<n>, is of
\* the given kind and covers lines 50(n-1)+1 .. min(50n, N)
C13_WindowedAs(kind) ==
    LET lines == file.content
        N == Len(lines)
        kept == {n \in 1..((N + 49) \div 50) :
                    \E q \in (50 * (n - 1) + 1)..Min(50 * n, N) : NonBlank(lines[q])}
    IN /\ Len(functions) = Cardinality(kept)
       /\ \A k \in 1..Len(functions) : \E n \in kept :
             /\ functions[k].name = "chunk_" \o ToString(n)
             /\ functions[k].type = kind
             /\ functions[k].start_line = 50 * (n - 1) + 1
             /\ functions[k].end_line = Min(50 * n, N)
             /\ functions[k].content = SubSeq(lines, 50 * (n - 1) + 1, Min(50 * n, N))
       /\ \A k, l \in 1..Len(functions) :
             k < l => functions[k].start_line < functions[l].start_line
       /\ (N = 120 /\ Cardinality(kept) = 3) =>
             /\ <<functions[1].name, functions[2].name, functions[3].name>>
                   = <<"chunk_1", "chunk_2", "chunk_3">>
             /\ <<Len(functions[1].content), Len(functions[2].content),
                  Len(functions[3].content)>> = <<50, 50, 20>>

C14_WindowsIffNoBlock ==
    /\ Extracted =>
          IF Recognized(file.content, LanguageOf(file.ext))
          THEN /\ Len(functions) >= 1
               /\ \A k \in 1..Len(functions) : functions[k].type /= "code_chunk"
          ELSE /\ \A k \in 1..Len(functions) : functions[k].type = "code_chunk"
               /\ strip(file.content) /= EmptyText => Len(functions) >= 1
    /\ \A r \in 1..Len(runs) :
          LET f == runs[r].file IN
          (strip(f.content) /= EmptyText /\ ~Recognized(f.content, LanguageOf(f.ext)))
              => /\ Len(runs[r].chunks) >= 1
                 /\ runs[r].chunks[1].function_name \in {"chunk_1", "chunk_2", "chunk_3"}

C14_Witness ==
    /\ Extracted /\ LanguageOf(file.ext) = "javascript"
    /\ Len(file.content) = 61 /\ file.content[1].text = "console.log('line 1');"
    /\ Len(functions) = 2
    /\ functions[1].name = "chunk_1" /\ functions[2].name = "chunk_2"

(***************************************************************************)
(* Claims about where a block ends and how blocks nest.                    *)
(***************************************************************************)
\* the indentation of a line: the length of its leading whitespace
Indentation(l) == Len(l.ws)

\* the last line before the first non-blank line after p that is indented at
\* most k, the last line of the text if there is none
C23_EndAtDedent(lines, p, k) ==
    LET dedents == {r \in (p + 1)..Len(lines) :
                      NonBlank(lines[r]) /\ Indentation(lines[r]) <= k}
    IN IF dedents = {} THEN Len(lines) ELSE First(dedents) - 1

\* C23: in the Python extractor a block opened by a def/class line at
\* indentation k ends at the last line before the first later non-blank line
\* indented k or less, strictly less included, and at the end of the file if
\* there is no such line.
C23_BlockEndsAtFirstDedent ==
    (Extracted /\ IsPython /\ Recognized(file.content, "python")) =>
        \A n \in 1..Len(functions) :
            functions[n].end_line =
                C23_EndAtDedent(file.content, functions[n].start_line,
                                Indentation(file.content[functions[n].start_line]))

\* C24: a def/class nested at deeper indentation inside another block has a
\* chunk of its own, emitted after the parent's, whose lines lie within the
\* parent's: parent.start_line < nested.start_line and
\* nested.end_line <= parent.end_line.
C24_NestedWithinParent ==
    (Extracted /\ IsPython) =>
        /\ \A p \in 1..Len(file.content) :
              func_pattern(file.content[p].text) /= NoMatch =>
                 \E n \in 1..Len(functions) : functions[n].start_line = p
        /\ \A m, n \in 1..Len(functions) :
              (/\ functions[m].start_line < functions[n].start_line
               /\ functions[n].start_line <= functions[m].end_line
               /\ Indentation(file.content[functions[m].start_line])
                     < Indentation(file.content[functions[n].start_line]))
              => /\ m < n
                 /\ functions[n].end_line <= functions[m].end_line

(***************************************************************************)
(* Claims about the blocks of the C-like extractor.                        *)
(***************************************************************************)
IsCLike == LanguageOf(file.ext) \in {"javascript", "typescript"}

\* C25: in the C-like extractor the end line of a block is the first line,
\* counting from and including the opening line, at which the running brace
\* balance is back at zero; a block whose braces open and close on its
\* opening line ends on that line.
C25_EndsWhereBalanceIsZero ==
    (Extracted /\ IsCLike /\ Recognized(file.content, "javascript")) =>
        \A n \in 1..Len(functions) :
            LET p == functions[n].start_line
                zero == {q \in p..Len(file.content) : BraceCount(file.content, p, q) = 0}
            IN zero /= {} => functions[n].end_line = First(zero)

\* the patterns that match a line, in the order of the list: named function,
\* arrow function assigned to const/let/var, class, bare method signature
C26_Matching(text) == {k \in 1..NumPatterns : patterns(k, text) /= NoMatch}

\* the identifier each opening line of the model declares
C26_Declared(text) ==
    CASE text = "function greet() {" -> "greet"
      [] text = "function noop() {}" -> "noop"
      [] text = "const add = (a, b) => {" -> "add"
      [] text = "class Box {" -> "Box"
      [] text = "render() {" -> "render"
      [] OTHER -> ""

\* C26: the C-like patterns are tried in a fixed order and the first that
\* matches a line wins: each line opens at most one chunk, named by the
\* winning pattern, and the chunks come with strictly increasing start_line.
C26_FirstPatternWins ==
    (Extracted /\ IsCLike /\ Recognized(file.content, "javascript")) =>
        LET lines == file.content
            heads == SelectSeq(LineNumbers(Len(lines)),
                               LAMBDA p : C26_Matching(lines[p].text) /= {})
        IN /\ Len(functions) = Len(heads)
           /\ \A n \in 1..Len(heads) :
                 /\ functions[n].start_line = heads[n]
                 /\ functions[n].name =
                       patterns(First(C26_Matching(lines[heads[n]].text)),
                                lines[heads[n]].text).name
                 /\ functions[n].name = C26_Declared(lines[heads[n]].text)
           /\ \A m, n \in 1..Len(functions) :
                 m < n => functions[m].start_line < functions[n].start_line

C26_Witness ==
    /\ Extracted /\ IsCLike /\ Len(file.content) = 3
    /\ file.content[1].text = "const add = (a, b) => {"
    /\ file.content[2].text = "class Box {"
    /\ file.content[3].text = "render() {"
    /\ Len(functions) = 3
    /\ <<functions[1].name, functions[2].name, functions[3].name>> = <<"add", "Box", "render">>

(***************************************************************************)
(* discover_code_files.  The repository is the list of its files, each     *)
(* with the directories that lead to it; a directory's listing is in the   *)
(* order of that list.                                                     *)
(***************************************************************************)
\* a variant that takes the extensions as given
WithDotNever(ext) == ext

\* f'.{ext}' if not ext.startswith('.') else ext                   (line 84)
WithDot(ext) ==
    CASE ext = "py" -> ".py"
      [] ext = "js" -> ".js"
      [] ext = "ts" -> ".ts"
      [] ext = "java" -> ".java"
      [] ext = "go" -> ".go"
      [] ext = "rs" -> ".rs"
      [] ext = "cpp" -> ".cpp"
      [] ext = "c" -> ".c"
      [] ext = "h" -> ".h"
      [] OTHER -> ext

\* line 84
valid_extensions(exts) == {WithDot(e) : e \in exts}

\* a variant that descends into every directory
KeptDirsAll(dirs, excl) == dirs

\* dirs[:] = [d for d in dirs if d not in exclude_dirs]            (line 89)
KeptDirs(dirs, excl) == SelectSeq(dirs, LAMBDA d : d \notin excl)

IsPrefix(p, q) == Len(p) <= Len(q) /\ SubSeq(q, 1, Len(p)) = p

\* os.walk's files of the directory at path
ListFiles(t, path) == SelectSeq(t, LAMBDA f : f.dir = path)

\* os.walk's dirs of the directory at path: the names of its subdirectories,
\* each once, in listing order
ListDirs(t, path) ==
    LET below == {k \in 1..Len(t) : IsPrefix(path, t[k].dir) /\ Len(t[k].dir) > Len(path)}
        names == {t[k].dir[Len(path) + 1] : k \in below}
        first(n) == First({k \in below : t[k].dir[Len(path) + 1] = n})
    IN [j \in 1..Cardinality(names) |->
           CHOOSE n \in names : Cardinality({m \in names : first(m) < first(n)}) = j - 1]

\* lines 88-97: os.walk top-down from path, pruned, keeping the files whose
\* lower-cased extension is valid
RECURSIVE walk(_, _, _, _)
RECURSIVE walk_dirs(_, _, _, _, _)
walk(t, path, valid, excl) ==
    SelectSeq(ListFiles(t, path), LAMBDA f : Lower(f.ext) \in valid)
        \o walk_dirs(t, path, KeptDirs(ListDirs(t, path), excl), valid, excl)
walk_dirs(t, path, dirs, valid, excl) ==
    IF dirs = <<>> THEN <<>>
    ELSE walk(t, Append(path, Head(dirs)), valid, excl)
            \o walk_dirs(t, path, Tail(dirs), valid, excl)

\* lines 79-100
discover_code_files(t, exts, excl) == walk(t, <<>>, valid_extensions(exts), excl)

(***************************************************************************)
(* The trees discover_code_files is called on.                             *)
(***************************************************************************)
MaxTreeFiles == 4

PlainText == <<Line(<<>>, "x = 1")>>
TreeCatalogue ==
    << File(<<"src">>, "main", ".py", PlainText, TRUE, "commit"),
       File(<<"src">>, "utils", ".js", PlainText, TRUE, "commit"),
       File(<<>>, "README", ".md", PlainText, TRUE, "commit"),
       File(<<"node_modules">>, "lib", ".js", PlainText, TRUE, "commit"),
       File(<<>>, "setup", ".PY", PlainText, TRUE, "commit"),
       File(<<"src", "node_modules", "pkg">>, "index", ".js", PlainText, TRUE, "commit"),
       File(<<"src", "build">>, "out", ".py", PlainText, TRUE, "commit"),
       File(<<"src", "lib">>, "core", ".py", PlainText, TRUE, "commit"),
       File(<<"build">>, "notes", ".md", PlainText, TRUE, "commit") >>

\* the entries of a catalogue at the positions S, in the catalogue's order
Listing(cat, S) ==
    [j \in 1..Cardinality(S) |->
        cat[CHOOSE k \in S : Cardinality({m \in S : m < k}) = j - 1]]

AllowLists == {{"py", "js"}, {".py"}, {".js", "py"}, {}}
ExcludeLists == {{}, {"node_modules"}, {"node_modules", "build", ".git"}}

InitDiscover ==
    /\ \E S \in SUBSET (1..Len(TreeCatalogue)) :
          /\ Cardinality(S) <= MaxTreeFiles
          /\ tree = Listing(TreeCatalogue, S)
    /\ extensions \in AllowLists
    /\ exclude_dirs \in ExcludeLists
    /\ cleanup = TRUE /\ git_flag = FALSE /\ temp_dir = "none" /\ workdirs = {} /\ removals = <<>>
    /\ code_files = <<>> /\ fi = 0 /\ all_chunks = <<>> /\ errors = <<>>
    /\ ipc = "tree" /\ iexit = "none" /\ ingested = "none"
    /\ WriterIdle /\ ExtractIdle /\ ConfigIdle /\ CliIdle

\* a direct call of discover_code_files on the tree
DiscoverCall ==
    /\ ipc = "tree"
    /\ code_files' = discover_code_files(tree, extensions, exclude_dirs)
    /\ ipc' = "discovered"
    /\ UNCHANGED <<tree, extensions, exclude_dirs, cleanup, git_flag, temp_dir,
                   workdirs, removals, fi, all_chunks, errors, iexit, ingested>>
    /\ UNCHANGED <<wvars, xvars, cvars, kvars>>

NextDiscover ==
    \/ DiscoverCall

SpecDiscover == InitDiscover /\ [][NextDiscover]_vars

\* C15: discover_code_files returns exactly the files under the root whose
\* extension is in the allow-list, an entry with or without its leading dot
\* being the same extension, and that have no directory of an excluded name
\* above them at any depth.
C15_InAllowList(ext, exts) == \E a \in exts : Lower(ext) \in {a, "." \o a}

C15_ExactlyAllowedAndNotExcluded ==
    ipc = "discovered" =>
        LET want == {k \in 1..Len(tree) :
                        /\ C15_InAllowList(tree[k].ext, extensions)
                        /\ \A j \in 1..Len(tree[k].dir) : tree[k].dir[j] \notin exclude_dirs}
        IN /\ {code_files[k] : k \in 1..Len(code_files)} = {tree[k] : k \in want}
           /\ Len(code_files) = Cardinality(want)

C15_Witness ==
    /\ ipc = "discovered"
    /\ tree = Listing(TreeCatalogue, {1, 3, 4, 6})
    /\ extensions = {"py", "js"} /\ exclude_dirs = {"node_modules"}
    /\ code_files = <<TreeCatalogue[1]>>

(***************************************************************************)
(* ingest_repository, called by ingest_git_repository, which hands the     *)
(* chunks to insert_data.                                                  *)
(***************************************************************************)
MaxRepoFiles == 3
MaxIngestBatches == 2

\* lines 297-301 of code_ingestion.py, 431-432 of mindsdb_client.py
DefaultExtensions == {"py", "js", "ts", "java", "go", "rs", "cpp", "c", "h"}
DefaultExcludeDirs == {".git", "node_modules", "__pycache__", ".venv", "venv", "build", "dist"}

\* the files a repository may hold: code, a file that cannot be opened, files
\* with bytes that are not UTF-8, a blank file, files discovery leaves out, a
\* file with two blocks of the same name
RepoCatalogue ==
    << File(<<"src">>, "main", ".py",
            <<Line(<<>>, "def hello():"), Line(Indent(4), "return 1")>>, TRUE, "commit"),
       File(<<"src">>, "locked", ".py",
            <<Line(<<>>, "def world():"), Line(Indent(4), "return 2")>>, FALSE, "commit"),
       File(<<"src">>, "blob", ".c",
            <<Line(<<>>, "x = 1<ff>"), Line(<<>>, "<ff><fe>")>>, TRUE, "commit"),
       File(<<>>, "README", ".md", PlainText, TRUE, "commit"),
       File(<<"node_modules">>, "lib", ".js",
            <<Line(<<>>, "function noop() {}")>>, TRUE, "commit"),
       File(<<"lib">>, "util", ".js",
            <<Line(<<>>, "function greet() {"), Line(<<>>, "}")>>, TRUE, "nocommit"),
       File(<<"src">>, "empty", ".py", <<BlankLine, Line(<<Space>>, "")>>, TRUE, "commit"),
       File(<<>>, "junk", ".c", <<Line(<<>>, "<ff><fe>")>>, TRUE, "commit"),
       File(<<"lib">>, "guard", ".js",
            <<Line(<<>>, "if (x) {"), Line(<<>>, "}"),
              Line(<<>>, "if (x) {"), Line(<<>>, "x = 1"), Line(<<>>, "}")>>,
            TRUE, "commit") >>

InitIngest ==
    /\ \E S \in SUBSET (1..Len(RepoCatalogue)) :
          /\ Cardinality(S) <= MaxRepoFiles
          /\ tree = Listing(RepoCatalogue, S)
    /\ extensions = DefaultExtensions
    /\ exclude_dirs = DefaultExcludeDirs
    /\ cleanup \in BOOLEAN
    /\ git_flag \in BOOLEAN
    /\ temp_dir = "none" /\ workdirs = {} /\ removals = <<>>
    /\ code_files = <<>> /\ fi = 0 /\ all_chunks = <<>> /\ errors = <<>>
    /\ ipc = "start" /\ iexit = "none" /\ ingested = "none"
    /\ file = <<>> /\ repo_url = "https://host/a.git" /\ xpc = "idle"
    /\ functions = <<>> /\ runs = <<>>
    /\ WriterIdle /\ ConfigIdle /\ CliIdle

\* a variant in which an exception leaves without passing the finally block
ExitPastFinally(how) ==
    IF how = "raise" THEN [ipc |-> "exited", iexit |-> how]
    ELSE [ipc |-> "finally", iexit |-> how]

\* lines 306-347: a return or an exception inside the try block runs the
\* finally block before it leaves ingest_repository
ExitVia(how) == [ipc |-> "finally", iexit |-> how]

\* a variant that swallows the failure of the clone and returns what it has
AfterCloneSwallow(ok) ==
    IF ok THEN [ipc |-> "cloned", iexit |-> "none"] ELSE ExitVia("return")

\* lines 307, 337-339: on to discovery, or the exception is printed and raised
AfterClone(ok) ==
    IF ok THEN [ipc |-> "cloned", iexit |-> "none"] ELSE ExitVia("raise")

\* shutil.rmtree(d): the directory is gone when the removal went through; a
\* removal that fails (a file of the copy cannot be deleted) leaves it there
rmtree(dirs, d, ok) == IF ok THEN dirs \ {d} ELSE dirs

\* a variant that cleans up after a successful clone only when asked to, but
\* never looks at the temp_dir it was given
ShouldCleanupNever(td, cl) == FALSE

\* line 342: if temp_dir and cleanup
ShouldCleanup(td, cl) == td /= "none" /\ cl

\* a variant that keeps only the chunks of the last file
ExtendReplace(all, chunks) == chunks

\* line 329: all_chunks.extend(chunks)
Extend(all, chunks) == all \o chunks

\* lines 58-77 and 307: clone_repository makes a temporary directory and clones
\* into it; when the clone fails it removes the directory, ignoring the errors
\* of the removal, and raises
IngestClone ==
    /\ ipc = "start"
    /\ \E ok \in BOOLEAN :
          /\ temp_dir' = IF ok THEN JoinPath(repo_path) ELSE temp_dir
          /\ IF ok
             THEN /\ workdirs' = workdirs \cup {JoinPath(repo_path)}
                  /\ UNCHANGED removals
             ELSE \E removed \in BOOLEAN :
                  /\ workdirs' = rmtree(workdirs \cup {JoinPath(repo_path)},
                                        JoinPath(repo_path), removed)
                  /\ removals' = Append(removals, [dir |-> JoinPath(repo_path),
                                                   ok |-> removed, warned |-> FALSE])
          /\ ipc' = AfterClone(ok).ipc
          /\ iexit' = AfterClone(ok).iexit
    /\ UNCHANGED <<tree, extensions, exclude_dirs, cleanup, git_flag, code_files,
                   fi, all_chunks, errors, ingested>>
    /\ UNCHANGED <<wvars, xvars, cvars, kvars>>

\* lines 309-313: discovery, and the early return when nothing was found
IngestDiscover ==
    /\ ipc = "cloned"
    /\ code_files' = discover_code_files(tree, extensions, exclude_dirs)
    /\ IF code_files' = <<>>
       THEN /\ ipc' = ExitVia("return").ipc /\ iexit' = ExitVia("return").iexit
            /\ UNCHANGED fi
       ELSE /\ ipc' = "loop" /\ fi' = 1 /\ UNCHANGED iexit
    /\ UNCHANGED <<tree, extensions, exclude_dirs, cleanup, git_flag, temp_dir,
                   workdirs, removals, all_chunks, errors, ingested>>
    /\ UNCHANGED <<wvars, xvars, cvars, kvars>>

\* lines 325-332: one file of the loop
IngestProcess ==
    /\ ipc = "loop" /\ fi <= Len(code_files)
    /\ all_chunks' = Extend(all_chunks, process_file(code_files[fi], repo_url, git_flag))
    /\ errors' = IF process_file_fails(code_files[fi])
                 THEN Append(errors, JoinPath(FilePath(code_files[fi])))
                 ELSE errors
    /\ fi' = fi + 1
    /\ UNCHANGED <<tree, extensions, exclude_dirs, cleanup, git_flag, temp_dir,
                   workdirs, removals, code_files, ipc, iexit, ingested>>
    /\ UNCHANGED <<wvars, xvars, cvars, kvars>>

\* lines 334-335 and 349: the loop is over
IngestLoopEnd ==
    /\ ipc = "loop" /\ fi > Len(code_files)
    /\ ipc' = ExitVia("return").ipc /\ iexit' = ExitVia("return").iexit
    /\ UNCHANGED <<tree, extensions, exclude_dirs, cleanup, git_flag, temp_dir,
                   workdirs, removals, code_files, fi, all_chunks, errors, ingested>>
    /\ UNCHANGED <<wvars, xvars, cvars, kvars>>

\* lines 337-339: an exception raised during discovery or between two files
\* (by the walk, by the progress display) is printed and raised again
IngestAbort ==
    /\ ipc \in {"cloned", "loop"}
    /\ ipc' = ExitVia("raise").ipc /\ iexit' = ExitVia("raise").iexit
    /\ UNCHANGED <<tree, extensions, exclude_dirs, cleanup, git_flag, temp_dir,
                   workdirs, removals, code_files, fi, all_chunks, errors, ingested>>
    /\ UNCHANGED <<wvars, xvars, cvars, kvars>>

\* lines 341-347: the finally block; a removal that fails is only warned about
IngestFinally ==
    /\ ipc = "finally"
    /\ IF ShouldCleanup(temp_dir, cleanup)
       THEN \E removed \in BOOLEAN :
            /\ workdirs' = rmtree(workdirs, temp_dir, removed)
            /\ removals' = Append(removals, [dir |-> temp_dir, ok |-> removed,
                                             warned |-> ~removed])
       ELSE UNCHANGED <<workdirs, removals>>
    /\ ipc' = "exited"
    /\ UNCHANGED <<tree, extensions, exclude_dirs, cleanup, git_flag, temp_dir,
                   code_files, fi, all_chunks, errors, iexit, ingested>>
    /\ UNCHANGED <<wvars, xvars, cvars, kvars>>

\* mindsdb_client.py lines 437-439 and 462-464: no chunks came back, or
\* ingest_repository raised
GitIngestNoInsert ==
    /\ ipc = "exited"
    /\ iexit = "raise" \/ all_chunks = <<>>
    /\ ingested' = (iexit = "return")
    /\ ipc' = "reported"
    /\ UNCHANGED <<tree, extensions, exclude_dirs, cleanup, git_flag, temp_dir,
                   workdirs, removals, code_files, fi, all_chunks, errors, iexit>>
    /\ UNCHANGED <<wvars, xvars, cvars, kvars>>

\* mindsdb_client.py lines 441-443: insert_data(chunks, batch_size) is called
GitIngestInsert ==
    /\ ipc = "exited" /\ iexit = "return" /\ all_chunks /= <<>>
    /\ data' = all_chunks
    /\ req_batch_size' \in {1, ConfigBatchSize}
    /\ TotalBatches(Len(all_chunks), EffectiveBatchSize(req_batch_size')) <= MaxIngestBatches
    /\ pc' = "call"
    /\ ipc' = "insert"
    /\ UNCHANGED <<batch_size, total_batches, successful_batches, i, attempt,
                   server, result, outcome, events, inserted_records>>
    /\ UNCHANGED <<tree, extensions, exclude_dirs, cleanup, git_flag, temp_dir,
                   workdirs, removals, code_files, fi, all_chunks, errors, iexit, ingested>>
    /\ UNCHANGED <<xvars, cvars, kvars>>

\* mindsdb_client.py lines 445-460: insert_data returned
GitIngestReport ==
    /\ ipc = "insert" /\ pc = "done"
    /\ ingested' = result
    /\ ipc' = "reported"
    /\ UNCHANGED <<tree, extensions, exclude_dirs, cleanup, git_flag, temp_dir,
                   workdirs, removals, code_files, fi, all_chunks, errors, iexit>>
    /\ UNCHANGED <<wvars, xvars, cvars, kvars>>

NextIngest ==
    \/ IngestClone
    \/ IngestDiscover
    \/ IngestProcess
    \/ IngestLoopEnd
    \/ IngestAbort
    \/ IngestFinally
    \/ GitIngestNoInsert
    \/ GitIngestInsert
    \/ InsertBegin
    \/ SubmitOk
    \/ SubmitFail
    \/ Reconnect
    \/ NextBatch
    \/ Finish
    \/ GitIngestReport

SpecIngest == InitIngest /\ [][NextIngest]_vars

(***************************************************************************)
(* Claims about ingest_repository and ingest_git_repository.               *)
(***************************************************************************)
\* ingest_repository has exited, by a return or by an exception
Exited == ipc \in {"exited", "insert", "reported"}

\* clone_repository raised
CloneFailed == ipc \notin {"idle", "start"} /\ temp_dir = "none"

\* C16 as stated: whenever cleanup is true the temporary working copy no longer
\* exists once ingest_repository has exited, on every exit path.
C16_NoWorkingCopyLeft ==
    (cleanup /\ Exited) => JoinPath(repo_path) \notin workdirs

\* C16 as amended: whenever cleanup is true, every exit path removes the
\* temporary working copy once, and the copy no longer exists after the exit
\* unless that removal itself failed.
C16_CleanupOnEveryExit ==
    (cleanup /\ Exited) =>
        /\ Len(removals) = 1
        /\ removals[1].dir = JoinPath(repo_path)
        /\ (JoinPath(repo_path) \in workdirs) <=> ~removals[1].ok

C16_Witness ==
    /\ Exited /\ cleanup /\ iexit = "raise" /\ ~CloneFailed
    /\ Len(code_files) >= 2 /\ fi = 2
    /\ removals[1].ok /\ workdirs = {}

\* C17: if the clone fails the run fails as a whole: ingest_repository raises
\* and returns no chunks, ingest_git_repository reports failure, and no batch
\* is ever submitted to the store.
C17_CloneFailureIsAtomic ==
    CloneFailed =>
        /\ all_chunks = <<>> /\ code_files = <<>>
        /\ Exited => iexit = "raise"
        /\ ipc = "reported" => ingested = FALSE
        /\ ipc /= "insert" /\ pc = "idle" /\ events = <<>>

C17_Witness ==
    /\ CloneFailed /\ ipc = "reported" /\ ingested = FALSE
    /\ Len(tree) = MaxRepoFiles /\ discover_code_files(tree, extensions, exclude_dirs) /= <<>>

\* the files of the chunks, each file once, in the order of the chunks
ChunkFiles(chunks) ==
    LET firsts == SelectSeq(LineNumbers(Len(chunks)),
                            LAMBDA k : k = 1 \/ chunks[k].filepath /= chunks[k - 1].filepath)
    IN [j \in 1..Len(firsts) |-> chunks[firsts[j]].filepath]

\* the files the loop of ingest_repository has gone through
Done == SubSeq(code_files, 1, fi - 1)

RelPathOf(f) == relpath(FilePath(f), repo_path)

\* the file holds bytes that are not valid UTF-8
C18_Undecodable(f) == read(f) /= f.content

C18_Unreadable(f) == ~f.readable

\* C18 as stated: a file that cannot be read or decoded is skipped with a
\* recorded error and never aborts the run; the chunks of every other
\* discovered file are returned, in discovery order.
C18_UndecodableFileSkipped ==
    LET failing(f) == C18_Unreadable(f) \/ C18_Undecodable(f)
        others == SelectSeq(Done, LAMBDA f : ~failing(f) /\ strip(f.content) /= EmptyText)
    IN /\ ChunkFiles(all_chunks) = [j \in 1..Len(others) |-> RelPathOf(others[j])]
       /\ \A k \in 1..Len(Done) :
             failing(Done[k]) => \E e \in 1..Len(errors) : errors[e] = JoinPath(FilePath(Done[k]))
       /\ (ipc = "loop" /\ fi <= Len(code_files)) => iexit = "none"

\* C18 as amended: a file that cannot be opened or read is skipped with a
\* printed error and never aborts the run; the chunks of every other
\* discovered file are returned, in discovery order; a file with bytes that
\* are not valid UTF-8 is one of these others: its invalid bytes are dropped
\* and what is left is chunked.
C18_UnreadableFileSkipped ==
    LET others == SelectSeq(Done, LAMBDA f : ~C18_Unreadable(f) /\ strip(read(f)) /= EmptyText)
        failed == SelectSeq(Done, LAMBDA f : C18_Unreadable(f))
    IN /\ ChunkFiles(all_chunks) = [j \in 1..Len(others) |-> RelPathOf(others[j])]
       /\ errors = [j \in 1..Len(failed) |-> JoinPath(FilePath(failed[j]))]
       /\ \A k \in 1..Len(all_chunks) : \A q \in 1..Len(all_chunks[k].code_chunk) :
             decode_ignore(all_chunks[k].code_chunk[q]) = all_chunks[k].code_chunk[q]
       /\ (ipc = "loop" /\ fi <= Len(code_files)) => iexit = "none"

C18_Witness ==
    /\ ipc = "exited" /\ iexit = "return"
    /\ code_files = <<RepoCatalogue[1], RepoCatalogue[2], RepoCatalogue[3]>>
    /\ ChunkFiles(all_chunks) = <<"src/main.py", "src/blob.c">>
    /\ errors = <<"tmp/semantic_nav_1/src/locked.py">>

(***************************************************************************)
(* Claims about the git fields of a chunk.                                 *)
(***************************************************************************)
\* C19: author and line_range are gated by extract_git_info: both are '' when
\* it is false; when it is true line_range is 'start-end' of the chunk's own
\* lines and author is the last commit's author if a commit touching the file
\* was found, '' otherwise.
C19_GitFieldsGated ==
    \A r \in 1..Len(runs) :
        LET f == runs[r].file
            found == extract_functions_fallback(read(f), LanguageOf(f.ext))
        IN \A k \in 1..Len(runs[r].chunks) :
              LET c == runs[r].chunks[k] IN
              IF ~runs[r].extract_git_info
              THEN c.author = "" /\ c.line_range = ""
              ELSE /\ c.line_range = ToString(found[k].start_line) \o "-"
                                        \o ToString(found[k].end_line)
                   /\ c.author = IF f.git = "commit" THEN "alice" ELSE ""

C19_Witness ==
    /\ Len(runs) = 2
    /\ runs[1].extract_git_info /\ runs[1].file.git = "nocommit"
    /\ runs[2].extract_git_info /\ runs[2].file.git = "commit"
    /\ Len(runs[1].chunks) = 2 /\ Len(runs[2].chunks) = 2
    /\ runs[1].chunks[2].author = "" /\ runs[1].chunks[2].line_range = "2-2"
    /\ runs[2].chunks[2].author = "alice" /\ runs[2].chunks[2].line_range = "2-2"

(***************************************************************************)
(* config.py: the configuration dataclasses and the environment.           *)
(***************************************************************************)
EnvNames == {"MINDSDB_HOST", "KB_NAME", "BATCH_SIZE"}
EnvValues(name) ==
    CASE name = "MINDSDB_HOST" -> {"localhost", "db.example"}
      [] name = "KB_NAME" -> {"my_kb"}
      [] OTHER -> {"1000", "25"}

\* the environments: some of the variables set, each to one of its values
Environments ==
    UNION {{e \in [S -> UNION {EnvValues(n) : n \in EnvNames}] :
                \A n \in S : e[n] \in EnvValues(n)} : S \in SUBSET EnvNames}

\* os.getenv(name, default)
getenv(e, name, default) == IF name \in DOMAIN e THEN e[name] ELSE default

\* int(text) on the texts the model's variables hold
int(text) ==
    CASE text = "500" -> 500
      [] text = "1000" -> 1000
      [] text = "25" -> 25

\* load_dotenv(): the variables of the .env file that are not set yet are set
load_dotenv(e, f) ==
    [n \in (DOMAIN e) \cup (DOMAIN f) |-> IF n \in DOMAIN e THEN e[n] ELSE f[n]]

\* lines 14, 33 and 90: the defaults of MindsDBConfig.host, KnowledgeBaseConfig.name
\* and StressTestConfig.batch_size, evaluated when the class body is executed
FieldDefaults(e) ==
    [host |-> getenv(e, "MINDSDB_HOST", "127.0.0.1"),
     name |-> getenv(e, "KB_NAME", "codebase_kb"),
     batch_size |-> int(getenv(e, "BATCH_SIZE", "500"))]

InitConfig ==
    /\ env \in Environments
    /\ dotenv \in {e \in Environments : DOMAIN e \subseteq {"KB_NAME"}}
    /\ class_defaults = <<>> /\ cfg = <<>> /\ cpc = "fresh"
    /\ WriterIdle /\ ExtractIdle /\ IngestIdle /\ CliIdle

\* import src.config: load_dotenv() runs (line 8) and the three class bodies are
\* executed, which evaluates their os.getenv defaults
ImportConfig ==
    /\ cpc = "fresh"
    /\ env' = load_dotenv(env, dotenv)
    /\ class_defaults' = FieldDefaults(env')
    /\ cpc' = "imported"
    /\ UNCHANGED <<dotenv, cfg>>
    /\ UNCHANGED <<wvars, xvars, ivars, kvars>>

\* the program or a test sets a variable after the import (patch.dict)
SetEnv ==
    /\ cpc = "imported"
    /\ \E n \in EnvNames : \E v \in EnvValues(n) :
          /\ getenv(env, n, "") /= v
          /\ env' = [m \in (DOMAIN env) \cup {n} |-> IF m = n THEN v ELSE env[m]]
    /\ UNCHANGED <<dotenv, class_defaults, cfg, cpc>>
    /\ UNCHANGED <<wvars, xvars, ivars, kvars>>

\* a variable is removed from the environment after the import
UnsetEnv ==
    /\ cpc = "imported"
    /\ \E n \in DOMAIN env : env' = [m \in (DOMAIN env) \ {n} |-> env[m]]
    /\ UNCHANGED <<dotenv, class_defaults, cfg, cpc>>
    /\ UNCHANGED <<wvars, xvars, ivars, kvars>>

\* MindsDBConfig(), KnowledgeBaseConfig(), StressTestConfig(): a dataclass
\* constructed without arguments takes the defaults of its class
Construct ==
    /\ cpc = "imported"
    /\ cfg' = class_defaults
    /\ cpc' = "constructed"
    /\ UNCHANGED <<env, dotenv, class_defaults>>
    /\ UNCHANGED <<wvars, xvars, ivars, kvars>>

NextConfig ==
    \/ ImportConfig
    \/ SetEnv
    \/ UnsetEnv
    \/ Construct

SpecConfig == InitConfig /\ [][NextConfig]_vars

\* C20: a configuration object takes its fields from the environment as it is
\* when the object is constructed, and the documented defaults for the
\* variables that are unset then.
C20_FieldsFromEnvAtConstruction ==
    cpc = "constructed" =>
        /\ cfg.host = IF "MINDSDB_HOST" \in DOMAIN env THEN env["MINDSDB_HOST"]
                      ELSE "127.0.0.1"
        /\ cfg.name = IF "KB_NAME" \in DOMAIN env THEN env["KB_NAME"] ELSE "codebase_kb"
        /\ cfg.batch_size = IF "BATCH_SIZE" \in DOMAIN env THEN int(env["BATCH_SIZE"])
                            ELSE 500

(***************************************************************************)
(* cli.py: the kb:ingest command, which checks the URL, connects to the    *)
(* store and runs ingest_git_repository.                                   *)
(***************************************************************************)
\* the repository URLs the command is given
CliUrls == {"https://host/a.git", "git@host:a.git", "file:///tmp/test_repo_1",
            "http://host/a.git"}

\* str.startswith on the URLs of the model
startswith(url, prefix) ==
    CASE prefix = "https://" -> url \in {"https://host/a.git", "https://host/b.git"}
      [] prefix = "git@" -> url = "git@host:a.git"
      [] prefix = "file://" -> url = "file:///tmp/test_repo_1"
      [] prefix = "http://" -> url = "http://host/a.git"
      [] OTHER -> FALSE

\* line 487: repo_url.startswith("https://") or repo_url.startswith("git@")
UrlAccepted(url) == startswith(url, "https://") \/ startswith(url, "git@")

\* the lines the command prints about its result
MsgInvalidUrl == "Invalid repository URL. Must start with 'https://' or 'git@'"
MsgDryRun == "Dry run mode - no actual ingestion will occur"
MsgNoConnection == "Failed to connect to MindsDB"
MsgCompleted == "Repository ingestion completed successfully!"
MsgFailed == "Repository ingestion failed"

\* kb:ingest <repo_url> [--dry-run]; --cleanup is set by default, the
\* extensions and the excluded directories are the defaults of lines 470-471
InitCli ==
    /\ repo_url \in CliUrls
    /\ dry_run \in BOOLEAN
    /\ kpc = "invoked" /\ exit_code = Running /\ output = ""
    /\ \E S \in SUBSET (1..Len(RepoCatalogue)) :
          /\ Cardinality(S) <= MaxRepoFiles
          /\ tree = Listing(RepoCatalogue, S)
    /\ extensions = DefaultExtensions
    /\ exclude_dirs = DefaultExcludeDirs
    /\ cleanup = TRUE
    /\ git_flag = FALSE
    /\ temp_dir = "none" /\ workdirs = {} /\ removals = <<>>
    /\ code_files = <<>> /\ fi = 0 /\ all_chunks = <<>> /\ errors = <<>>
    /\ ipc = "idle" /\ iexit = "none" /\ ingested = "none"
    /\ file = <<>> /\ xpc = "idle" /\ functions = <<>> /\ runs = <<>>
    /\ data = <<>> /\ req_batch_size = 0 /\ batch_size = 0 /\ total_batches = 0
    /\ successful_batches = 0 /\ i = 0 /\ attempt = 0
    /\ server = "none"          \* MindsDBClient.__init__ (mindsdb_client.py 22-23)
    /\ pc = "idle" /\ result = "none" /\ outcome = "none" /\ events = <<>>
    /\ inserted_records = NotReported
    /\ ConfigIdle

\* lines 487-489: the URL is checked; a URL that is refused ends the command
CliValidate ==
    /\ kpc = "invoked"
    /\ IF UrlAccepted(repo_url)
       THEN /\ kpc' = "plan" /\ UNCHANGED <<exit_code, output>>
       ELSE /\ kpc' = "exited" /\ exit_code' = 1 /\ output' = MsgInvalidUrl
    /\ UNCHANGED dry_run
    /\ UNCHANGED <<wvars, xvars, ivars, cvars>>

\* lines 491-532: the plan is printed, and a dry run returns
CliDryRun ==
    /\ kpc = "plan" /\ dry_run
    /\ kpc' = "exited" /\ exit_code' = 0 /\ output' = MsgDryRun
    /\ UNCHANGED dry_run
    /\ UNCHANGED <<wvars, xvars, ivars, cvars>>

\* lines 534-538 and mindsdb_client.py 1022-1029: the client connects on entry;
\* without a handle the command exits, and leaving the block disconnects
CliConnect ==
    /\ kpc = "plan" /\ ~dry_run
    /\ \E up \in BOOLEAN :
          IF up
          THEN /\ server' = "handle" /\ kpc' = "ingest" /\ ipc' = "start"
               /\ UNCHANGED <<exit_code, output>>
          ELSE /\ server' = "none" /\ kpc' = "exited" /\ UNCHANGED ipc
               /\ exit_code' = 1 /\ output' = MsgNoConnection
    /\ UNCHANGED dry_run
    /\ UNCHANGED <<data, req_batch_size, batch_size, total_batches, successful_batches,
                   i, attempt, pc, result, outcome, events, inserted_records>>
    /\ UNCHANGED <<tree, extensions, exclude_dirs, cleanup, git_flag, temp_dir,
                   workdirs, removals, code_files, fi, all_chunks, errors, iexit, ingested>>
    /\ UNCHANGED <<xvars, cvars>>

\* lines 540-556: ingest_git_repository returned; the client disconnects when
\* the block is left
CliReport ==
    /\ kpc = "ingest" /\ ipc = "reported"
    /\ IF ingested = TRUE
       THEN exit_code' = 0 /\ output' = MsgCompleted
       ELSE exit_code' = 1 /\ output' = MsgFailed
    /\ server' = "none"
    /\ kpc' = "exited"
    /\ UNCHANGED dry_run
    /\ UNCHANGED <<data, req_batch_size, batch_size, total_batches, successful_batches,
                   i, attempt, pc, result, outcome, events, inserted_records>>
    /\ UNCHANGED <<xvars, ivars, cvars>>

NextCli ==
    \/ CliValidate
    \/ CliDryRun
    \/ CliConnect
    \/ IngestClone
    \/ IngestDiscover
    \/ IngestProcess
    \/ IngestLoopEnd
    \/ IngestAbort
    \/ IngestFinally
    \/ GitIngestNoInsert
    \/ GitIngestInsert
    \/ InsertBegin
    \/ SubmitOk
    \/ SubmitFail
    \/ Reconnect
    \/ NextBatch
    \/ Finish
    \/ GitIngestReport
    \/ CliReport

SpecCli == InitCli /\ [][NextCli]_vars

\* the command has ended
CliExited == kpc = "exited"

\* nothing outside the command went wrong: the store was reachable, the clone
\* went through and no submission failed
CliUntroubled ==
    /\ output /= MsgNoConnection
    /\ ~CloneFailed /\ iexit /= "raise"
    /\ \A k \in 1..Len(events) : events[k].ok

\* C21: kb:ingest accepts a URL of the form file://<local path>: with a
\* reachable store and a local git repository it runs the ingestion, exits
\* with code 0 and reports that the ingestion completed successfully.
C21_FileUrlAccepted ==
    (CliExited /\ startswith(repo_url, "file://") /\ ~dry_run /\ CliUntroubled) =>
        /\ exit_code = 0
        /\ output = MsgCompleted
        /\ ipc = "reported"

(***************************************************************************)
(* Claims about the chunks of one ingestion and their way into the store.  *)
(***************************************************************************)
\* C27: within one ingest_repository run no two distinct chunks share a
\* chunk_id, two chunks of the same file included.
C27_ChunkIdsDistinct ==
    \A k, l \in 1..Len(all_chunks) :
        k /= l => all_chunks[k].chunk_id /= all_chunks[l].chunk_id

\* the keys of the dictionary built at lines 263-283
ChunkFields ==
    {"code_chunk", "filepath", "language", "function_name", "repo", "last_modified",
     "chunk_id", "author", "line_range"}

\* C30: every chunk of process_file has exactly the fields code_chunk,
\* filepath, language, function_name, repo, last_modified, chunk_id, author and
\* line_range, whatever the language, the extraction path and extract_git_info,
\* so the columns insert_data takes from the first record of a batch exist in
\* every record of the batch and no batch fails for a missing column.
C30_SameFieldsEveryChunk ==
    /\ \A k \in 1..Len(all_chunks) : DOMAIN all_chunks[k] = ChunkFields
    /\ \A k \in AttemptIdx :
          /\ events[k].op /= "unbuilt"
          /\ ~BuildFails(events[k].recs)
          /\ Columns(events[k].recs) = ChunkFields
          /\ \A r \in 1..Len(events[k].recs) : DOMAIN events[k].recs[r] = ChunkFields

C30_Witness ==
    /\ ipc = "reported" /\ ingested = TRUE /\ git_flag
    /\ \E k \in AttemptIdx :
          /\ events[k].ok /\ Len(events[k].recs) >= 3
          /\ {events[k].recs[r].language : r \in 1..Len(events[k].recs)}
                = {"python", "c", "javascript"}
          /\ \E r \in 1..Len(events[k].recs) :
                events[k].recs[r].function_name = "chunk_1"
          /\ \E r \in 1..Len(events[k].recs) : events[k].recs[r].author = ""
          /\ \E r \in 1..Len(events[k].recs) : events[k].recs[r].author = "alice"

====
